---- MODULE Spec2Model ----
(***************************************************************************)
(* Linear block codes over GF(2) (linear_block_codes.py) and Adinkra       *)
(* graphs (adinkra_graphs.py).  Matrices are sequences of rows, rows are   *)
(* sequences of integers; Python's 0-based index i is index i+1 here.      *)
(***************************************************************************)
EXTENDS Integers, Sequences, FiniteSets, TLC

\* ------------------------------------------------------------------ bounds
\* Largest number of rows / columns of a generator matrix handed directly
\* to the LinearBlockCode constructor.
MaxK == 2
MaxN == 3
\* Largest parameter r handed to hamming_code in SpecHamming.
MaxR == 3
\* Largest parameter r handed to hamming_code in SpecHammingWide: r = 4 is the
\* least r for which the first k columns of the generator matrix are
\* linearly dependent.
MaxRWide == 4
\* Largest parameter handed to repetition_code and parity_check_code.
MaxParam == 4

\* ------------------------------------------------------------ GF(2) helpers
Bit == {0, 1}

\* a list or array with the values of f: the elements are computed once and
\* stored
Array(f) == f \o <<>>

Pow2(e) == 2 ^ e

\* element-wise "% 2" of a vector
Mod2(v) == Array([i \in 1..Len(v) |-> v[i] % 2])

\* np.sum of a vector
RECURSIVE SumUpTo(_, _)
SumUpTo(v, i) == IF i = 0 THEN 0 ELSE v[i] + SumUpTo(v, i - 1)

Sum(v) == SumUpTo(v, Len(v))

\* integer dot product of two vectors of equal length
Dot(a, b) == Sum(Array([i \in 1..Len(a) |-> a[i] * b[i]]))

\* column j of a matrix given as a sequence of rows
Column(M, j) == Array([i \in 1..Len(M) |-> M[i][j]])

\* msg @ M for a (rows x cols) matrix M: a vector of length cols
VecMat(msg, M, cols) == Array([j \in 1..cols |-> Dot(msg, Column(M, j))])

\* recv @ M.T : one dot product per row of M
VecMatT(recv, M) == Array([r \in 1..Len(M) |-> Dot(recv, M[r])])

Zeros(len) == Array([i \in 1..len |-> 0])

Ones(len) == Array([i \in 1..len |-> 1])

\* np.eye(n, dtype=int)
Eye(nn) == Array([i \in 1..nn |-> Array([j \in 1..nn |-> IF i = j THEN 1 ELSE 0])])

\* itertools.product([0, 1], repeat=kk): the kk-bit tuples in lexicographic
\* order, tuple number t (1-based) being t-1 written with the first bit most
\* significant.
Product01(kk) ==
    Array([t \in 1..Pow2(kk) |->
              Array([b \in 1..kk |-> ((t - 1) \div Pow2(kk - b)) % 2])])

\* results of a call: a returned value or a raised exception
Returned(v) == [raised |-> "", value |-> v]

Raised(e) == [raised |-> e, value |-> <<>>]

NoResult == [raised |-> "", value |-> <<>>]

\* ------------------------------------------------- LinearBlockCode methods
\* encode(message) on an object with fields G, k, n
encode(GG, kk, nn, message) ==
    LET msg == Mod2(message)
    IN  IF Len(msg) # kk
        THEN Raised("ValueError")
        ELSE Returned(Mod2(VecMat(msg, GG, nn)))

\* syndrome(received) on an object with fields H, n
syndrome(HH, nn, received) ==
    LET recv == Mod2(received)
    IN  IF Len(recv) # nn
        THEN Raised("ValueError")
        ELSE Returned(Mod2(VecMatT(recv, HH)))

\* is_codeword(word): np.all(syndrome == 0); the ValueError of syndrome
\* propagates
is_codeword(HH, nn, word) ==
    LET s == syndrome(HH, nn, word)
    IN  IF s.raised # ""
        THEN s
        ELSE Returned(\A i \in 1..Len(s.value) : s.value[i] = 0)

\* get_all_codewords(): encode of every tuple of the product, in order
get_all_codewords(GG, kk, nn) ==
    LET msgs == Product01(kk)
    IN  Array([t \in 1..Len(msgs) |-> encode(GG, kk, nn, msgs[t]).value])

\* np.sum((a + b) % 2): the sum of a 0/1 vector, i.e. the number of
\* positions where (a + b) % 2 is 1
XorWeight(a, b) == Cardinality({i \in 1..Len(a) : (a[i] + b[i]) % 2 = 1})

\* the least element of a non-empty set of integers
SetMin(S) == CHOOSE x \in S : \A y \in S : x <= y

\* mutant of InnerStart: the inner loop starts at i itself, range(i, ...)
InnerStart_FromSelf(i) == i

\* first index of the inner loop: range(i + 1, len(codewords))
InnerStart(i) == i + 1

\* inner loop of _compute_minimum_distance for one i: min_dist after j has
\* run over range(i + 1, len(codewords)), i.e. the least of min_dist and the
\* distances met
MinDistInner(cw, i, min_dist) ==
    SetMin({min_dist} \cup {XorWeight(cw[i], cw[j]) : j \in InnerStart(i)..Len(cw)})

\* _compute_minimum_distance(): min_dist starts at n + 1 and is lowered by
\* every smaller distance of a pair i < j of the list of codewords
compute_minimum_distance(GG, kk, nn) ==
    LET codewords == get_all_codewords(GG, kk, nn)
    IN  SetMin({nn + 1} \cup
               {MinDistInner(codewords, i, nn + 1) : i \in 1..Len(codewords)})

\* ------------------------------------------ _compute_parity_check_matrix
\* np.vstack([G, identity])
Augmented(GG, nn) == GG \o Eye(nn)

\* the pivot search of iteration i: the first row j in i+1..k with a 1 in
\* column i, row i itself when there is none
FindPivot(aug, i, kk) ==
    LET later == {j \in (i + 1)..kk : aug[j][i] = 1}
    IN  IF later = {} THEN i ELSE CHOOSE j \in later : \A l \in later : j <= l

\* augmented[[i, pivot_row]] = augmented[[pivot_row, i]]
SwapRows(aug, i, p) == [aug EXCEPT ![i] = aug[p], ![p] = aug[i]]

\* for j in range(k): if j != i and augmented[j, i] == 1: add row i to row j
EliminateColumn(aug, i, kk) ==
    Array([j \in 1..Len(aug) |->
        IF j <= kk /\ j # i /\ aug[j][i] = 1
        THEN Array([c \in 1..Len(aug[j]) |-> (aug[j][c] + aug[i][c]) % 2])
        ELSE aug[j]])

\* mutant of GaussianElimination: the loop stops at the last column
RECURSIVE GaussianElimination_Clamped(_, _, _, _)
GaussianElimination_Clamped(aug, i, kk, nn) ==
    IF i > kk \/ i > nn
    THEN Returned(aug)
    ELSE LET pivot_row == FindPivot(aug, i, kk)
         IN  IF aug[pivot_row][i] = 0
             THEN GaussianElimination_Clamped(aug, i + 1, kk, nn)
             ELSE GaussianElimination_Clamped(
                      EliminateColumn(
                          IF pivot_row # i THEN SwapRows(aug, i, pivot_row) ELSE aug,
                          i, kk),
                      i + 1, kk, nn)

\* the elimination loop from iteration i on; indexing column i of a matrix
\* with nn columns raises IndexError when i is out of range
RECURSIVE GaussianElimination(_, _, _, _)
GaussianElimination(aug, i, kk, nn) ==
    IF i > kk
    THEN Returned(aug)
    ELSE IF i > nn
    THEN Raised("IndexError")
    ELSE LET pivot_row == FindPivot(aug, i, kk)
         IN  IF aug[pivot_row][i] = 0
             THEN GaussianElimination(aug, i + 1, kk, nn)
             ELSE GaussianElimination(
                      EliminateColumn(
                          IF pivot_row # i THEN SwapRows(aug, i, pivot_row) ELSE aug,
                          i, kk),
                      i + 1, kk, nn)

\* one row of H, built for column i (k < i <= n) of the reduced matrix:
\* row[j] = augmented[j, i] for j < k, row[i] = 1, zero elsewhere
HRow(aug, i, kk, nn) ==
    Array([j \in 1..nn |-> IF j <= kk THEN aug[j][i] ELSE IF j = i THEN 1 ELSE 0])

\* the fallback after the extraction: an all-ones first row when n > k,
\* otherwise the empty (0 x n) matrix
FallbackH(kk, nn) ==
    IF nn > kk
    THEN Array([r \in 1..(nn - kk) |-> IF r = 1 THEN Ones(nn) ELSE Zeros(nn)])
    ELSE <<>>

\* the extraction of H from the reduced matrix
ExtractH(aug, kk, nn) ==
    LET null_space_dim == nn - kk
        H_rows == Array([r \in 1..null_space_dim |-> HRow(aug, kk + r, kk, nn)])
    IN  IF null_space_dim > 0 /\ H_rows # <<>>
        THEN H_rows
        ELSE FallbackH(kk, nn)

\* _compute_parity_check_matrix()
compute_parity_check_matrix(GG, kk, nn) ==
    LET reduced == GaussianElimination(Augmented(GG, nn), 1, kk, nn)
    IN  IF reduced.raised # ""
        THEN reduced
        ELSE Returned(ExtractH(reduced.value, kk, nn))

\* LinearBlockCode.__init__(generator_matrix): the fields after the call.
\* d is assigned before H is derived, so a failing derivation leaves an
\* object that is never returned, with H unset.
LinearBlockCodeInit(matrix) ==
    LET GG == Array([i \in 1..Len(matrix.rows) |-> Mod2(matrix.rows[i])])
        kk == matrix.shape[1]
        nn == matrix.shape[2]
        dd == compute_minimum_distance(GG, kk, nn)
        hh == compute_parity_check_matrix(GG, kk, nn)
    IN  [raised |-> hh.raised, G |-> GG, k |-> kk, n |-> nn, d |-> dd,
         H |-> hh.value]

\* ------------------------------------------------------ factory functions
\* format(i, '0{r}b') turned into a list of digits: r binary digits of i,
\* most significant first
BinaryRepr(i, r) == Array([b \in 1..r |-> (i \div Pow2(r - b)) % 2])

\* mutant of HammingH: the columns are the representations of 0..n-1,
\* range(n) in place of range(1, n + 1)
HammingH_FromZero(r, nn) ==
    Array([b \in 1..r |-> Array([j \in 1..nn |-> BinaryRepr(j - 1, r)[b]])])

\* the r x n parity-check matrix of hamming_code: column j is the binary
\* representation of j (the transpose of the list of representations)
HammingH(r, nn) == Array([b \in 1..r |-> Array([j \in 1..nn |-> BinaryRepr(j, r)[b]])])

\* identity_cols: for each unit vector e_i the first column of H equal to it
IdentityCols(HH, r, nn) ==
    Array([i \in 1..r |->
        LET col == Array([b \in 1..r |-> IF b = i THEN 1 ELSE 0])
            hits == {j \in 1..nn : Column(HH, j) = col}
        IN  CHOOSE j \in hits : \A l \in hits : j <= l])

\* the elements of a set of integers in ascending order
RECURSIVE Ascending(_)
Ascending(S) ==
    IF S = {}
    THEN <<>>
    ELSE LET m == CHOOSE x \in S : \A y \in S : x <= y
         IN  <<m>> \o Ascending(S \ {m})

\* info_positions: the columns that are not identity columns, ascending
InfoPositions(identity_cols, nn) ==
    Ascending({j \in 1..nn : \A i \in 1..Len(identity_cols) : identity_cols[i] # j})

\* the generator matrix hamming_code builds from H
HammingG(r) ==
    LET nn == Pow2(r) - 1
        kk == nn - r
        HH == HammingH(r, nn)
        identity_cols == IdentityCols(HH, r, nn)
        info_positions == InfoPositions(identity_cols, nn)
    IN  Array([i \in 1..kk |-> Array([c \in 1..nn |->
            IF c = info_positions[i]
            THEN 1
            ELSE IF \E j \in 1..r : identity_cols[j] = c
            THEN HH[CHOOSE j \in 1..r : identity_cols[j] = c][info_positions[i]]
            ELSE 0])])

\* hamming_code(r): the matrix handed to LinearBlockCode, or ValueError
hamming_code(r) ==
    IF r < 2
    THEN Raised("ValueError")
    ELSE Returned([shape |-> <<Pow2(r) - 1 - r, Pow2(r) - 1>>, rows |-> HammingG(r)])

\* mutant of repetition_code: the shape transposed, np.ones((n, 1))
repetition_code_Transposed(nn) ==
    IF nn < 1
    THEN Raised("ValueError")
    ELSE Returned([shape |-> <<nn, 1>>, rows |-> Array([i \in 1..nn |-> <<1>>])])

\* repetition_code(n): np.ones((1, n))
repetition_code(nn) ==
    IF nn < 1
    THEN Raised("ValueError")
    ELSE Returned([shape |-> <<1, nn>>, rows |-> <<Ones(nn)>>])

\* mutant of parity_check_code: the parity loop stops one row early,
\* range(k - 1)
parity_check_code_ShortParity(kk) ==
    IF kk < 1
    THEN Raised("ValueError")
    ELSE Returned([shape |-> <<kk, kk + 1>>,
                   rows |-> Array([i \in 1..kk |-> Array([c \in 1..(kk + 1) |->
                                IF c = i \/ (c = kk + 1 /\ i < kk) THEN 1 ELSE 0])])])

\* parity_check_code(k): identity block plus an all-ones last column
parity_check_code(kk) ==
    IF kk < 1
    THEN Raised("ValueError")
    ELSE Returned([shape |-> <<kk, kk + 1>>,
                   rows |-> Array([i \in 1..kk |-> Array([c \in 1..(kk + 1) |->
                                IF c = i \/ c = kk + 1 THEN 1 ELSE 0])])])

\* ------------------------------------------------------------ Adinkra graphs
\* Strings that take part in ids are sequences of one-character strings, so
\* that they can be concatenated and compared as Python compares them.
Digits == <<"0", "1", "2", "3", "4", "5", "6", "7", "8", "9">>

\* str(i) for an integer i >= 0
RECURSIVE IntStr(_)
IntStr(i) == IF i < 10 THEN <<Digits[i + 1]>> ELSE IntStr(i \div 10) \o <<Digits[(i % 10) + 1]>>

\* ", ".join of the elements from index i on
RECURSIVE JoinFrom(_, _)
JoinFrom(t, i) ==
    IF i > Len(t) THEN <<>>
    ELSE IntStr(t[i]) \o (IF i < Len(t) THEN <<",", " ">> ELSE <<>>) \o JoinFrom(t, i + 1)

\* str(position) of a tuple of integers: "()", "(0,)", "(0, 1)"
TupleStr(t) ==
    IF Len(t) = 1
    THEN <<"(">> \o IntStr(t[1]) \o <<",", ")">>
    ELSE <<"(">> \o JoinFrom(t, 1) \o <<")">>

\* FieldType: the values of the enumeration
BOSONIC == "B"

FERMIONIC == "F"

\* list(EdgeColor): the members by name, in definition order
EdgeColorList == <<"RED", "GREEN", "BLUE", "YELLOW">>

\* EdgeColor.<name>.value
ColorValue(color) == (CHOOSE i \in 1..Len(EdgeColorList) : EdgeColorList[i] = color) - 1

\* color.name as a sequence of characters
ColorNameChars(color) ==
    CASE color = "RED" -> <<"R", "E", "D">>
      [] color = "GREEN" -> <<"G", "R", "E", "E", "N">>
      [] color = "BLUE" -> <<"B", "L", "U", "E">>
      [] color = "YELLOW" -> <<"Y", "E", "L", "L", "O", "W">>

\* str(dashed)
BoolStr(b) == IF b THEN <<"T", "r", "u", "e">> ELSE <<"F", "a", "l", "s", "e">>

\* AdinkraNode(field_type, position, field_name) with __post_init__:
\* id = f"{field_type.value}_{field_name}_{position}"
AdinkraNode(field_type, position, field_name) ==
    [field_type |-> field_type, position |-> position, field_name |-> field_name,
     id |-> <<field_type>> \o <<"_">> \o field_name \o <<"_">> \o TupleStr(position)]

\* mutant of SameFieldType: the end points are compared by id
SameFieldType_ById(source, target) == source.id = target.id

\* the check of AdinkraEdge.__post_init__: do the end points have the same
\* field type
SameFieldType(source, target) == source.field_type = target.field_type

\* AdinkraEdge(source, target, color, dashed) with __post_init__: raises
\* ValueError for end points of the same field type, otherwise the edge with
\* id = f"{source.id}_{target.id}_{color.name}_{dashed}"
AdinkraEdge(source, target, color, dashed) ==
    IF SameFieldType(source, target)
    THEN Raised("ValueError")
    ELSE Returned([source |-> source, target |-> target, color |-> color,
                   dashed |-> dashed,
                   id |-> source.id \o <<"_">> \o target.id \o <<"_">>
                            \o ColorNameChars(color) \o <<"_">> \o BoolStr(dashed)])

\* set.add(x) for objects whose __eq__ and __hash__ go by id: an element
\* with the same id is kept, otherwise x is inserted
SetAdd(S, x) == IF \E y \in S : y.id = x.id THEN S ELSE S \cup {x}

\* list[:stop] for a list and an integer stop (a negative stop counts from
\* the end)
SliceTo(list, stop) ==
    LET len == Len(list)
        last == IF stop >= 0 THEN (IF stop < len THEN stop ELSE len)
                ELSE (IF len + stop > 0 THEN len + stop ELSE 0)
    IN  SubSeq(list, 1, last)

\* x in list
InList(x, list) == \E i \in 1..Len(list) : list[i] = x

\* check_adinkra_rules(): rule 1, every edge joins different field types
BipartiteValid(edge_set) ==
    ~ \E edge \in edge_set : edge.source.field_type = edge.target.field_type

\* check_adinkra_rules(): rule 2, every node touches as many colors as there
\* are available colors
ColorCompleteness(node_set, edge_set, colors) ==
    \A node \in node_set :
        LET node_colors == {edge.color : edge \in
                               {e \in edge_set : e.source.id = node.id \/ e.target.id = node.id}}
        IN  Cardinality(node_colors) = Len(colors)

\* check_adinkra_rules()
check_adinkra_rules(node_set, edge_set, colors) ==
    [bipartite |-> BipartiteValid(edge_set),
     color_completeness |-> ColorCompleteness(node_set, edge_set, colors),
     dashing_consistent |-> TRUE]

\* ------------------------------------------------------------------ state
VARIABLES
    call,       \* the pending constructor or factory call: [fn, arg]
    pc,         \* "new": call pending; "ready": object built; "error": the call raised
    G, k, n, d, H,  \* the fields of the LinearBlockCode object
    op,         \* the last method called ("" when the caller holds no result)
    arg,        \* its argument
    ret,        \* its result: [raised, value]
    codeword,   \* the caller's variable holding the value of the last encode
    added,      \* the edges add_edge has stored, in the order of the calls
    dimension, available_colors,    \* the fields of the AdinkraGraph object
    nodes, edges, bosonic_nodes, fermionic_nodes

code == <<G, k, n, d, H>>

graph == <<dimension, available_colors, nodes, edges, bosonic_nodes, fermionic_nodes>>

vars == <<call, pc, code, op, arg, ret, codeword, added, graph>>

NoCodeword == [set |-> FALSE, value |-> <<>>]

\* all k x n binary matrices, with their shape
Matrices(kk, nn) == {[shape |-> <<kk, nn>>, rows |-> r] : r \in [1..kk -> [1..nn -> Bit]]}

\* the vectors handed to a method that expects length len: every binary
\* vector of that length, and one of each neighbouring length
ArgVectors(len) ==
    [1..len -> Bit] \cup {Zeros(len + 1)} \cup (IF len > 0 THEN {Zeros(len - 1)} ELSE {})

\* no AdinkraGraph object
NoGraph ==
    /\ dimension = 0 /\ available_colors = <<>>
    /\ nodes = {} /\ edges = {} /\ bosonic_nodes = {} /\ fermionic_nodes = {}

InitObject ==
    /\ pc = "new"
    /\ NoGraph
    /\ G = <<>> /\ k = 0 /\ n = 0 /\ d = 0 /\ H = <<>>
    /\ op = "" /\ arg = <<>> /\ ret = NoResult
    /\ codeword = NoCodeword /\ added = <<>>

\* the fields and the program position after LinearBlockCode(matrix)
Construct(matrix) ==
    \E obj \in {LinearBlockCodeInit(matrix)} :
        /\ G' = obj.G /\ k' = obj.k /\ n' = obj.n /\ d' = obj.d /\ H' = obj.H
        /\ pc' = IF obj.raised = "" THEN "ready" ELSE "error"
        /\ ret' = IF obj.raised = "" THEN NoResult ELSE Raised(obj.raised)
        /\ UNCHANGED <<call, op, arg, codeword, added, graph>>

\* a factory that raised before it reached the constructor
FactoryRaised(e) ==
    /\ pc' = "error"
    /\ ret' = Raised(e)
    /\ UNCHANGED <<call, code, op, arg, codeword, added, graph>>

\* LinearBlockCode(generator_matrix)
NewLinearBlockCode ==
    /\ pc = "new" /\ call.fn = "LinearBlockCode"
    /\ Construct(call.arg)

\* hamming_code(r)
HammingCode ==
    /\ pc = "new" /\ call.fn = "hamming_code"
    /\ \E m \in {hamming_code(call.arg)} :
         IF m.raised # "" THEN FactoryRaised(m.raised) ELSE Construct(m.value)

\* repetition_code(n)
RepetitionCode ==
    /\ pc = "new" /\ call.fn = "repetition_code"
    /\ \E m \in {repetition_code(call.arg)} :
         IF m.raised # "" THEN FactoryRaised(m.raised) ELSE Construct(m.value)

\* parity_check_code(k)
ParityCheckCode ==
    /\ pc = "new" /\ call.fn = "parity_check_code"
    /\ \E m \in {parity_check_code(call.arg)} :
         IF m.raised # "" THEN FactoryRaised(m.raised) ELSE Construct(m.value)

\* code.encode(message); the caller keeps the codeword
Encode ==
    /\ pc = "ready" /\ op = ""
    /\ \E message \in ArgVectors(k) :
         \E r \in {encode(G, k, n, message)} :
             /\ op' = "encode" /\ arg' = message /\ ret' = r
             /\ codeword' = IF r.raised = "" THEN [set |-> TRUE, value |-> r.value]
                                             ELSE NoCodeword
    /\ UNCHANGED <<call, pc, code, added, graph>>

\* the words a caller hands to syndrome / is_codeword: any word when it
\* holds no result, the codeword it has just encoded otherwise
WordArgs ==
    IF op = "" THEN ArgVectors(n)
    ELSE IF op = "encode" /\ codeword.set THEN {codeword.value}
    ELSE {}

\* code.syndrome(received)
Syndrome ==
    /\ pc = "ready"
    /\ \E received \in WordArgs :
         /\ op' = "syndrome" /\ arg' = received /\ ret' = syndrome(H, n, received)
    /\ UNCHANGED <<call, pc, code, codeword, added, graph>>

\* code.is_codeword(word)
IsCodeword ==
    /\ pc = "ready"
    /\ \E word \in WordArgs :
         /\ op' = "is_codeword" /\ arg' = word /\ ret' = is_codeword(H, n, word)
    /\ UNCHANGED <<call, pc, code, codeword, added, graph>>

\* code.get_all_codewords()
GetAllCodewords ==
    /\ pc = "ready" /\ op = ""
    /\ op' = "get_all_codewords" /\ arg' = <<>>
    /\ ret' = Returned(get_all_codewords(G, k, n))
    /\ UNCHANGED <<call, pc, code, codeword, added, graph>>

\* the caller drops the result it holds
Forget ==
    /\ pc \in {"ready", "graph"} /\ op # ""
    /\ op' = "" /\ arg' = <<>> /\ ret' = NoResult /\ codeword' = NoCodeword
    /\ UNCHANGED <<call, pc, code, added, graph>>

\* --- LinearBlockCode built from any matrix of at most MaxK x MaxN
Init ==
    /\ InitObject
    /\ call \in {[fn |-> "LinearBlockCode", arg |-> m] :
                    m \in UNION {Matrices(kk, nn) : kk \in 0..MaxK, nn \in 0..MaxN}}

Next == NewLinearBlockCode \/ Encode \/ Syndrome \/ IsCodeword \/ GetAllCodewords \/ Forget

Spec == Init /\ [][Next]_vars

\* --- hamming_code(r), r up to MaxR
InitHamming ==
    /\ InitObject
    /\ call \in {[fn |-> "hamming_code", arg |-> r] : r \in 0..MaxR}

NextHamming == HammingCode \/ Encode \/ Syndrome \/ IsCodeword \/ GetAllCodewords \/ Forget

SpecHamming == InitHamming /\ [][NextHamming]_vars

\* --- hamming_code(r), r up to MaxRWide
InitHammingWide ==
    /\ InitObject
    /\ call \in {[fn |-> "hamming_code", arg |-> r] : r \in 0..MaxRWide}

SpecHammingWide == InitHammingWide /\ [][NextHamming]_vars

\* --- repetition_code(n) and parity_check_code(k), parameter up to MaxParam
InitFactory ==
    /\ InitObject
    /\ call \in {[fn |-> f, arg |-> p] :
                    f \in {"repetition_code", "parity_check_code"}, p \in 0..MaxParam}

NextFactory ==
    RepetitionCode \/ ParityCheckCode \/ Encode \/ Syndrome \/ IsCodeword
        \/ GetAllCodewords \/ Forget

SpecFactory == InitFactory /\ [][NextFactory]_vars

\* ------------------------------------------------- AdinkraGraph as an object
\* Most edges a graph of SpecGraph holds.
MaxEdges == 2
\* Largest dimension handed to AdinkraGraph.
MaxDimension == 1

\* the nodes create_simple_adinkra names: phi_i (bosonic), psi_i (fermionic)
BosonicNode(i) == AdinkraNode(BOSONIC, <<i>>, <<"p", "h", "i", "_">> \o IntStr(i))

FermionicNode(i) == AdinkraNode(FERMIONIC, <<i>>, <<"p", "s", "i", "_">> \o IntStr(i))

\* the nodes handed to add_node and used as end points of edges
NodeUniverse == {BosonicNode(0), BosonicNode(1), FermionicNode(0)}

\* AdinkraGraph.__init__(dimension): the fields after the call
AdinkraGraphInit(dim) ==
    [dimension |-> dim, available_colors |-> SliceTo(EdgeColorList, dim),
     nodes |-> {}, edges |-> {}, bosonic_nodes |-> {}, fermionic_nodes |-> {}]

\* the object as a record of its fields
ThisGraph ==
    [dimension |-> dimension, available_colors |-> available_colors,
     nodes |-> nodes, edges |-> edges,
     bosonic_nodes |-> bosonic_nodes, fermionic_nodes |-> fermionic_nodes]

\* mutant of add_node: the node is registered with the bosonic nodes
\* whatever its field type
add_node_AlwaysBosonic(g, node) ==
    [g EXCEPT !.nodes = SetAdd(g.nodes, node),
              !.bosonic_nodes = SetAdd(g.bosonic_nodes, node)]

\* add_node(node): the fields after the call
add_node(g, node) ==
    [g EXCEPT !.nodes = SetAdd(g.nodes, node),
              !.bosonic_nodes = IF node.field_type = BOSONIC
                                THEN SetAdd(g.bosonic_nodes, node) ELSE @,
              !.fermionic_nodes = IF node.field_type = BOSONIC
                                  THEN @ ELSE SetAdd(g.fermionic_nodes, node)]

\* mutant of add_edge: the end points are inserted before the color is
\* looked at
add_edge_NodesFirst(g, edge) ==
    IF ~ InList(edge.color, g.available_colors)
    THEN [raised |-> "ValueError",
          value |-> add_node(add_node(g, edge.source), edge.target)]
    ELSE Returned([add_node(add_node(g, edge.source), edge.target)
                      EXCEPT !.edges = SetAdd(g.edges, edge)])

\* add_edge(edge): what the call raised, and the fields after it. For a color
\* that is not available it raises ValueError before it touches a field,
\* otherwise both end points and the edge are inserted
add_edge(g, edge) ==
    IF ~ InList(edge.color, g.available_colors)
    THEN [raised |-> "ValueError", value |-> g]
    ELSE Returned([add_node(add_node(g, edge.source), edge.target)
                      EXCEPT !.edges = SetAdd(g.edges, edge)])

\* ord(c) for the characters node ids are made of
Ord(c) ==
    CASE c = " " -> 32 [] c = "(" -> 40 [] c = ")" -> 41 [] c = "," -> 44
      [] c = "B" -> 66 [] c = "F" -> 70 [] c = "_" -> 95
      [] c = "h" -> 104 [] c = "i" -> 105 [] c = "p" -> 112 [] c = "s" -> 115
      [] OTHER -> 47 + (CHOOSE i \in 1..10 : Digits[i] = c)

\* a < b for two strings: the first differing character decides, a proper
\* prefix is smaller
StrLess(a, b) ==
    \/ \E i \in 1..Len(a) :
          /\ i <= Len(b)
          /\ \A j \in 1..(i - 1) : a[j] = b[j]
          /\ Ord(a[i]) < Ord(b[i])
    \/ Len(a) < Len(b) /\ \A j \in 1..Len(a) : a[j] = b[j]

\* sorted(list(S), key=lambda x: x.id)
SortedById(S) ==
    Array([i \in 1..Cardinality(S) |->
              CHOOSE x \in S : Cardinality({y \in S : StrLess(y.id, x.id)}) = i - 1])

\* list.index(x) for objects compared by id, counted from 1; 0 stands for
\* the ValueError of an absent x
IndexOf(list, x) ==
    IF \E i \in 1..Len(list) : list[i].id = x.id
    THEN CHOOSE i \in 1..Len(list) :
            list[i].id = x.id /\ \A j \in 1..(i - 1) : list[j].id # x.id
    ELSE 0

\* get_adjacency_matrix: the row and column an edge is written to, the
\* positions of its bosonic and its fermionic end in the sorted lists
CellOf(g, edge) ==
    <<IndexOf(SortedById(g.bosonic_nodes),
              IF edge.source.field_type = BOSONIC THEN edge.source ELSE edge.target),
      IndexOf(SortedById(g.fermionic_nodes),
              IF edge.target.field_type = FERMIONIC THEN edge.target ELSE edge.source)>>

\* get_adjacency_matrix: the edges of the color whose cell was found (the
\* others are skipped by the except clause), by cell
CellEdges(g, color) ==
    LET found == {<<CellOf(g, e), e>> : e \in {x \in g.edges : x.color = color}}
        cells == {p[1] : p \in {q \in found : q[1][1] # 0 /\ q[1][2] # 0}}
    IN  [cell \in cells |-> {p[2] : p \in {q \in found : q[1] = cell}}]

\* all functions that pick one member of opts[x] for every x
RECURSIVE Choices(_)
Choices(opts) ==
    IF DOMAIN opts = {} THEN {<<>>}
    ELSE LET x == CHOOSE y \in DOMAIN opts : TRUE
             rest == [y \in (DOMAIN opts) \ {x} |-> opts[y]]
         IN  {(x :> v) @@ f : f \in Choices(rest), v \in opts[x]}

\* `for edge in self.edges` meets the edges in the order of their hashes, an
\* order of the set that differs from run to run. LastMet is every way the
\* loop of get_adjacency_matrix can end: for each written cell, the edge of
\* that cell it met last
LastMet(g, color) == Choices(CellEdges(g, color))

\* the value get_adjacency_matrix writes for an edge
EdgeValue(edge) == IF edge.dashed THEN -1 ELSE 1

\* mutant of get_adjacency_matrix: the values of the edges of a cell are
\* added up
get_adjacency_matrix_Accumulate(g, color, last) ==
    LET by_cell == CellEdges(g, color)
    IN  Array([i \in 1..Cardinality(g.bosonic_nodes) |->
            Array([j \in 1..Cardinality(g.fermionic_nodes) |->
                IF <<i, j>> \in DOMAIN by_cell
                THEN Cardinality({e \in by_cell[<<i, j>>] : ~ e.dashed})
                        - Cardinality({e \in by_cell[<<i, j>>] : e.dashed})
                ELSE 0])])

\* get_adjacency_matrix(color) when the loop meets the edges last[cell] last:
\* every assignment to a cell overwrites the one before
get_adjacency_matrix(g, color, last) ==
    Array([i \in 1..Cardinality(g.bosonic_nodes) |->
        Array([j \in 1..Cardinality(g.fermionic_nodes) |->
            IF <<i, j>> \in DOMAIN last THEN EdgeValue(last[<<i, j>>]) ELSE 0])])

\* every list of `ones` 1s and `zeros` 0s
RECURSIVE Arrangements(_, _)
Arrangements(ones, zeros) ==
    IF ones = 0 /\ zeros = 0 THEN {<<>>}
    ELSE (IF ones > 0 THEN {<<1>> \o a : a \in Arrangements(ones - 1, zeros)} ELSE {})
            \cup (IF zeros > 0 THEN {<<0>> \o a : a \in Arrangements(ones, zeros - 1)}
                  ELSE {})

\* to_codeword_representation: every dashing_bits list the loop over
\* self.edges can build for a color. It appends 1 for a dashed and 0 for a
\* solid edge of the color in the order it meets them, and every order of the
\* set is possible
DashingBits(g, color) ==
    Arrangements(Cardinality({e \in g.edges : e.color = color /\ e.dashed}),
                 Cardinality({e \in g.edges : e.color = color /\ ~ e.dashed}))

\* the colors of a list, as a set
ColorSet(colors) == {colors[i] : i \in 1..Len(colors)}

\* the ways the loops over self.edges can run, for every available color:
\* the edges get_adjacency_matrix meets last, and the dashing_bits list
LastMetAll(g) == Choices([color \in ColorSet(g.available_colors) |-> LastMet(g, color)])

DashingBitsAll(g) ==
    Choices([color \in ColorSet(g.available_colors) |-> DashingBits(g, color)])

\* (np.abs(adj_matrix).flatten() > 0).astype(int), row by row
StructureBits(adj_matrix) ==
    LET rows == Len(adj_matrix)
        cols == IF rows = 0 THEN 0 ELSE Len(adj_matrix[1])
        abs(v) == IF v < 0 THEN 0 - v ELSE v
    IN  Array([t \in 1..(rows * cols) |->
                  IF abs(adj_matrix[((t - 1) \div cols) + 1][((t - 1) % cols) + 1]) > 0
                  THEN 1 ELSE 0])

\* mutant of PadTruncate: the list is padded but not cut
PadTruncate_PadOnly(dashing_bits, len) ==
    Array([t \in 1..(IF Len(dashing_bits) > len THEN Len(dashing_bits) ELSE len) |->
              IF t <= Len(dashing_bits) THEN dashing_bits[t] ELSE 0])

\* dashing_bits padded with 0 up to len, then dashing_bits[:len]
PadTruncate(dashing_bits, len) ==
    Array([t \in 1..len |-> IF t <= Len(dashing_bits) THEN dashing_bits[t] ELSE 0])

\* to_codeword_representation(): the dictionary from color to row, for one
\* run of the loops
to_codeword_representation(g, last, dashing) ==
    [color \in ColorSet(g.available_colors) |->
        LET structure_bits == StructureBits(get_adjacency_matrix(g, color, last[color]))
        IN  Array(structure_bits \o PadTruncate(dashing[color], Len(structure_bits)))]

\* get_code_parameters(): (n, k)
get_code_parameters(g) ==
    <<Cardinality(g.bosonic_nodes) * Cardinality(g.fermionic_nodes) * 2,
      Len(g.available_colors)>>

\* sorted(colors, key=lambda x: x.value)
SortedByValue(colors) ==
    Array([i \in 1..Len(colors) |->
              CHOOSE c \in ColorSet(colors) :
                 Cardinality({x \in ColorSet(colors) : ColorValue(x) < ColorValue(c)}) = i - 1])

\* the largest of a non-empty set of integers
SetMax(S) == CHOOSE x \in S : \A y \in S : y <= x

\* to_linear_code() for one run of the loops: what it raised, and the
\* LinearBlockCode object
to_linear_code(g, last, dashing) ==
    LET codewords == to_codeword_representation(g, last, dashing)
        sorted_colors == SortedByValue(g.available_colors)
        generator_rows == Array([i \in 1..Len(sorted_colors) |-> codewords[sorted_colors[i]]])
        max_length == SetMax({Len(generator_rows[i]) : i \in 1..Len(generator_rows)})
        padded_rows == Array([i \in 1..Len(generator_rows) |->
                                 PadTruncate(generator_rows[i], max_length)])
        obj == LinearBlockCodeInit([shape |-> <<Len(padded_rows), max_length>>,
                                    rows |-> padded_rows])
    IN  IF DOMAIN codewords = {} THEN Raised("ValueError")
        ELSE IF generator_rows = <<>> THEN Raised("ValueError")
        ELSE [raised |-> obj.raised, value |-> obj]

\* graph.add_node(node) for the nodes of a list from position t on
RECURSIVE AddNodes(_, _, _)
AddNodes(g, node_list, t) ==
    IF t > Len(node_list) THEN g
    ELSE AddNodes(add_node(g, node_list[t]), node_list, t + 1)

\* edge = AdinkraEdge(source, target, color, dashed); graph.add_edge(edge)
\* for the entries of a list from position t on; the first call that raises
\* ends the loop
RECURSIVE AddEdges(_, _, _)
AddEdges(g, edge_list, t) ==
    IF t > Len(edge_list) THEN Returned(g)
    ELSE LET a == edge_list[t]
             e == AdinkraEdge(a.source, a.target, a.color, a.dashed)
             r == add_edge(g, e.value)
         IN  IF e.raised # "" THEN Raised(e.raised)
             ELSE IF r.raised # "" THEN Raised(r.raised)
             ELSE AddEdges(r.value, edge_list, t + 1)

\* mutant of SimpleEdgeArgs: the color index is left out of the dashing
\* pattern
SimpleEdgeArgs_NoColorIndex(n_bosonic, n_fermionic, colors) ==
    LET nc == Len(colors)
    IN  Array([t \in 1..(n_bosonic * n_fermionic * nc) |->
            LET i == (t - 1) \div (n_fermionic * nc)
                j == ((t - 1) \div nc) % n_fermionic
                kc == (t - 1) % nc
            IN  [source |-> BosonicNode(i), target |-> FermionicNode(j),
                 color |-> colors[kc + 1], dashed |-> (i + j) % 2 = 1]])

\* create_simple_adinkra: the arguments of the AdinkraEdge calls of the
\* three nested loops, in the order of the calls
SimpleEdgeArgs(n_bosonic, n_fermionic, colors) ==
    LET nc == Len(colors)
    IN  Array([t \in 1..(n_bosonic * n_fermionic * nc) |->
            LET i == (t - 1) \div (n_fermionic * nc)
                j == ((t - 1) \div nc) % n_fermionic
                kc == (t - 1) % nc
            IN  [source |-> BosonicNode(i), target |-> FermionicNode(j),
                 color |-> colors[kc + 1], dashed |-> (i + j + kc) % 2 = 1]])

\* create_simple_adinkra(n_bosonic, n_fermionic, dimension): what it raised,
\* and the fields of the graph it returns
create_simple_adinkra(n_bosonic, n_fermionic, dim) ==
    LET with_bosonic == AddNodes(AdinkraGraphInit(dim),
                                 Array([i \in 1..n_bosonic |-> BosonicNode(i - 1)]), 1)
        with_nodes == AddNodes(with_bosonic,
                               Array([i \in 1..n_fermionic |-> FermionicNode(i - 1)]), 1)
    IN  AddEdges(with_nodes,
                 SimpleEdgeArgs(n_bosonic, n_fermionic, with_nodes.available_colors), 1)

\* ''.join(map(str, vertex)) for a tuple of bits
BitsStr(vertex) == Array([i \in 1..Len(vertex) |-> Digits[vertex[i] + 1]])

\* mutant of HypercubeNode: the field type follows the first bit of the
\* vertex
HypercubeNode_ByFirstBit(vertex) ==
    AdinkraNode(IF vertex = <<>> \/ vertex[1] = 0 THEN BOSONIC ELSE FERMIONIC,
                vertex, BitsStr(vertex))

\* create_hypercube_adinkra: the node of a vertex, bosonic for an even and
\* fermionic for an odd number of 1 bits
HypercubeNode(vertex) ==
    AdinkraNode(IF Sum(vertex) % 2 = 0 THEN BOSONIC ELSE FERMIONIC,
                vertex, BitsStr(vertex))

\* mutant of HypercubeEdgeArgs: only the vertex whose bit is 0 starts the
\* edge along an axis
HypercubeEdgeArgs_ForwardOnly(dim, colors) ==
    LET vertices == Product01(dim)
        all == Array([t \in 1..(Len(vertices) * dim) |->
                  LET vertex == vertices[((t - 1) \div dim) + 1]
                      i == ((t - 1) % dim) + 1
                  IN  [source |-> HypercubeNode(vertex),
                       target |-> HypercubeNode([vertex EXCEPT ![i] = 1 - @]),
                       axis |-> i,
                       color |-> IF i <= Len(colors) THEN colors[i] ELSE "",
                       dashed |-> vertex[i] = 1]])
    IN  SelectSeq(all, LAMBDA a : ~ a.dashed)

\* create_hypercube_adinkra: the arguments of the AdinkraEdge calls of the
\* loops over the vertices and the axes, in the order of the calls; `axis`
\* is the index into available_colors (counted from 1)
HypercubeEdgeArgs(dim, colors) ==
    LET vertices == Product01(dim)
    IN  Array([t \in 1..(Len(vertices) * dim) |->
            LET vertex == vertices[((t - 1) \div dim) + 1]
                i == ((t - 1) % dim) + 1
            IN  [source |-> HypercubeNode(vertex),
                 target |-> HypercubeNode([vertex EXCEPT ![i] = 1 - @]),
                 axis |-> i,
                 color |-> IF i <= Len(colors) THEN colors[i] ELSE "",
                 dashed |-> vertex[i] = 1]])

\* the arguments up to the first one whose available_colors[i] is out of
\* range
BeforeIndexError(edge_args, colors) ==
    LET bad == {t \in 1..Len(edge_args) : edge_args[t].axis > Len(colors)}
    IN  IF bad = {} THEN edge_args ELSE SubSeq(edge_args, 1, SetMin(bad) - 1)

\* create_hypercube_adinkra(dimension): what it raised, and the fields of
\* the graph it returns. available_colors[i] raises IndexError for an axis
\* beyond the last color
create_hypercube_adinkra(dim) ==
    LET vertices == Product01(dim)
        with_nodes == AddNodes(AdinkraGraphInit(dim),
                               Array([t \in 1..Len(vertices) |-> HypercubeNode(vertices[t])]), 1)
        edge_args == HypercubeEdgeArgs(dim, with_nodes.available_colors)
        reached == BeforeIndexError(edge_args, with_nodes.available_colors)
        result == AddEdges(with_nodes, reached, 1)
    IN  IF result.raised = "" /\ Len(reached) < Len(edge_args)
        THEN Raised("IndexError")
        ELSE result

\* the object takes the fields of record g
SetGraph(g) ==
    /\ dimension' = g.dimension /\ available_colors' = g.available_colors
    /\ nodes' = g.nodes /\ edges' = g.edges
    /\ bosonic_nodes' = g.bosonic_nodes /\ fermionic_nodes' = g.fermionic_nodes

\* graph.add_node(node)
AddNode ==
    /\ pc = "graph" /\ op = ""
    /\ \E node \in NodeUniverse :
         /\ SetGraph(add_node(ThisGraph, node))
         /\ arg' = node
    /\ op' = "add_node" /\ ret' = NoResult
    /\ UNCHANGED <<call, pc, code, codeword, added>>

\* AdinkraEdge(source, target, color, dashed) raises: no edge object exists
\* and nothing is handed to the graph
NewEdgeRaises ==
    /\ pc = "graph" /\ op = ""
    /\ \E source \in NodeUniverse, target \in NodeUniverse, dashed \in BOOLEAN :
         \E c \in 1..Len(EdgeColorList) :
            \E e \in {AdinkraEdge(source, target, EdgeColorList[c], dashed)} :
                /\ e.raised # ""
                /\ op' = "AdinkraEdge" /\ ret' = Raised(e.raised)
    /\ UNCHANGED <<call, pc, code, arg, codeword, added, graph>>

\* edge = AdinkraEdge(source, target, color, dashed); graph.add_edge(edge)
AddEdge ==
    /\ pc = "graph" /\ op = ""
    /\ \E source \in NodeUniverse, target \in NodeUniverse, dashed \in BOOLEAN :
         \E c \in 1..Len(EdgeColorList) :
            \E e \in {AdinkraEdge(source, target, EdgeColorList[c], dashed)} :
                /\ e.raised = ""
                /\ \E r \in {add_edge(ThisGraph, e.value)} :
                      /\ Cardinality(r.value.edges) <= MaxEdges
                      /\ ret' = IF r.raised # "" THEN Raised(r.raised) ELSE NoResult
                      /\ SetGraph(r.value)
                      /\ added' = IF r.value.edges # edges
                                  THEN Append(added, e.value) ELSE added
                /\ arg' = e.value
    /\ op' = "add_edge"
    /\ UNCHANGED <<call, pc, code, codeword>>

\* graph.check_adinkra_rules()
CheckAdinkraRules ==
    /\ pc = "graph" /\ op = ""
    /\ op' = "check_adinkra_rules" /\ arg' = <<>>
    /\ ret' = Returned(check_adinkra_rules(nodes, edges, available_colors))
    /\ UNCHANGED <<call, pc, code, codeword, added, graph>>

\* graph.get_adjacency_matrix(color)
GetAdjacencyMatrix ==
    /\ pc = "graph" /\ op = ""
    /\ \E c \in 1..Len(EdgeColorList) :
         \E last \in LastMet(ThisGraph, EdgeColorList[c]) :
            /\ op' = "get_adjacency_matrix" /\ arg' = EdgeColorList[c]
            /\ ret' = Returned(get_adjacency_matrix(ThisGraph, EdgeColorList[c], last))
    /\ UNCHANGED <<call, pc, code, codeword, added, graph>>

\* graph.to_codeword_representation()
ToCodewordRepresentation ==
    /\ pc = "graph" /\ op = ""
    /\ \E last \in LastMetAll(ThisGraph), dashing \in DashingBitsAll(ThisGraph) :
         /\ op' = "to_codeword_representation" /\ arg' = <<>>
         /\ ret' = Returned(to_codeword_representation(ThisGraph, last, dashing))
    /\ UNCHANGED <<call, pc, code, codeword, added, graph>>

\* graph.get_code_parameters()
GetCodeParameters ==
    /\ pc = "graph" /\ op = ""
    /\ op' = "get_code_parameters" /\ arg' = <<>>
    /\ ret' = Returned(get_code_parameters(ThisGraph))
    /\ UNCHANGED <<call, pc, code, codeword, added, graph>>

\* code = graph.to_linear_code(): the caller goes on with the code; a call
\* that raised returns no object
ToLinearCode ==
    /\ pc = "graph" /\ op = ""
    /\ \E last \in LastMetAll(ThisGraph), dashing \in DashingBitsAll(ThisGraph) :
         \E r \in {to_linear_code(ThisGraph, last, dashing)} :
            IF r.raised = ""
            THEN /\ G' = r.value.G /\ k' = r.value.k /\ n' = r.value.n
                 /\ d' = r.value.d /\ H' = r.value.H
                 /\ pc' = "ready" /\ ret' = NoResult
            ELSE /\ ret' = Raised(r.raised)
                 /\ UNCHANGED <<pc, code>>
    /\ op' = "to_linear_code" /\ arg' = <<>>
    /\ UNCHANGED <<call, codeword, added, graph>>

\* --- AdinkraGraph(dimension) followed by any calls of its methods
InitGraph ==
    /\ pc = "graph"
    /\ \E dim \in 0..MaxDimension :
         /\ call = [fn |-> "AdinkraGraph", arg |-> dim]
         /\ dimension = AdinkraGraphInit(dim).dimension
         /\ available_colors = AdinkraGraphInit(dim).available_colors
         /\ nodes = AdinkraGraphInit(dim).nodes
         /\ edges = AdinkraGraphInit(dim).edges
         /\ bosonic_nodes = AdinkraGraphInit(dim).bosonic_nodes
         /\ fermionic_nodes = AdinkraGraphInit(dim).fermionic_nodes
    /\ G = <<>> /\ k = 0 /\ n = 0 /\ d = 0 /\ H = <<>>
    /\ op = "" /\ arg = <<>> /\ ret = NoResult
    /\ codeword = NoCodeword /\ added = <<>>

NextGraph ==
    AddNode \/ NewEdgeRaises \/ AddEdge \/ CheckAdinkraRules \/ GetAdjacencyMatrix
        \/ ToCodewordRepresentation \/ GetCodeParameters \/ ToLinearCode \/ Forget

SpecGraph == InitGraph /\ [][NextGraph]_vars

\* a factory has returned a graph with the fields of record g
GraphBuilt(g) ==
    /\ SetGraph(g)
    /\ pc' = "graph"
    /\ UNCHANGED <<call, code, op, arg, ret, codeword, added>>

\* create_simple_adinkra(n_bosonic, n_fermionic, dimension)
CreateSimpleAdinkra ==
    /\ pc = "new" /\ call.fn = "create_simple_adinkra"
    /\ \E r \in {create_simple_adinkra(call.arg[1], call.arg[2], call.arg[3])} :
         IF r.raised # "" THEN FactoryRaised(r.raised) ELSE GraphBuilt(r.value)

\* --- create_simple_adinkra with up to MaxBosonic x MaxFermionic nodes
\* Largest n_bosonic handed to create_simple_adinkra.
MaxBosonic == 2
\* Largest n_fermionic handed to create_simple_adinkra.
MaxFermionic == 2
\* Largest dimension handed to create_simple_adinkra.
MaxSimpleDimension == 4

InitSimple ==
    /\ InitObject
    /\ call \in {[fn |-> "create_simple_adinkra", arg |-> <<nb, nf, dim>>] :
                    nb \in 0..MaxBosonic, nf \in 0..MaxFermionic,
                    dim \in 0..MaxSimpleDimension}

\* the graph is built and inspected
NextSimple ==
    CreateSimpleAdinkra \/ CheckAdinkraRules \/ GetAdjacencyMatrix \/ GetCodeParameters
        \/ Forget

SpecSimple == InitSimple /\ [][NextSimple]_vars

\* the graph is built and turned into a code, which encodes messages
NextSimpleCode == CreateSimpleAdinkra \/ ToLinearCode \/ Encode \/ Forget

SpecSimpleCode == InitSimple /\ [][NextSimpleCode]_vars

\* create_hypercube_adinkra(dimension)
CreateHypercubeAdinkra ==
    /\ pc = "new" /\ call.fn = "create_hypercube_adinkra"
    /\ \E r \in {create_hypercube_adinkra(call.arg)} :
         IF r.raised # "" THEN FactoryRaised(r.raised) ELSE GraphBuilt(r.value)

\* --- create_hypercube_adinkra(dimension), dimension up to MaxCubeDimension
\* Largest dimension handed to create_hypercube_adinkra.
MaxCubeDimension == 4

InitCube ==
    /\ InitObject
    /\ call \in {[fn |-> "create_hypercube_adinkra", arg |-> dim] :
                    dim \in 0..MaxCubeDimension}

NextCube ==
    CreateHypercubeAdinkra \/ CheckAdinkraRules \/ GetAdjacencyMatrix \/ GetCodeParameters
        \/ Forget

SpecCube == InitCube /\ [][NextCube]_vars

\* ------------------------------------------------------------------ claims
\* the Hamming distance of two words of equal length
HammingDistance(a, b) == Cardinality({i \in 1..Len(a) : a[i] # b[i]})

\* all messages of length kk
Messages(kk) == [1..kk -> Bit]

\* w is in the code generated by G: it is the encoding of some message
InCode(w) == \E m \in Messages(k) : encode(G, k, n, m).value = w

\* the rows of G are linearly independent over GF(2): only the zero message
\* is encoded as the zero word
RowsIndependent ==
    \A m \in Messages(k) : encode(G, k, n, m).value = Zeros(n) => m = Zeros(k)

\* a LinearBlockCode object exists
Constructed == pc = "ready"

\* C1: for every generator matrix accepted by the constructor (1 <= k <= n)
\* every row of G has a zero dot product mod 2 with every row of the derived H.
C1_GeneratorOrthogonalToH ==
    (Constructed /\ k >= 1) =>
        \A i \in 1..k : \A r \in 1..Len(H) : Dot(G[i], H[r]) % 2 = 0

\* C2: is_codeword(encode(m)) is true for every message m of length k.
C2_EncodedWordIsCodeword ==
    (Constructed /\ op = "is_codeword" /\ codeword.set /\ arg = codeword.value) =>
        (ret.raised = "" /\ ret.value = TRUE)

\* C3: for every word w of length n, is_codeword(w) is true (syndrome(w) is
\* all zero) if and only if w is the encoding of some message.
C3_ZeroSyndromeIffCodeword ==
    /\ (Constructed /\ op = "is_codeword" /\ ret.raised = "") =>
          (ret.value <=> InCode(arg))
    /\ (Constructed /\ op = "syndrome" /\ ret.raised = "") =>
          ((ret.value = Zeros(Len(ret.value))) <=> InCode(arg))

\* the pairs of positions of a list
Pairs(list) == {p \in (1..Len(list)) \X (1..Len(list)) : p[1] < p[2]}

\* m is the minimum Hamming distance over the pairs of positions of a list
\* (nothing is asked of m when the list has no pair)
IsMinPairDistance(list, m) ==
    /\ \A p \in Pairs(list) : HammingDistance(list[p[1]], list[p[2]]) >= m
    /\ Pairs(list) # {} => \E p \in Pairs(list) : HammingDistance(list[p[1]], list[p[2]]) = m

\* the entries of a list are pairwise distinct
PairwiseDistinct(list) == \A p \in Pairs(list) : list[p[1]] # list[p[2]]

C7_SentinelForTrivialCode ==
    (Constructed /\ (k = 0 \/ \A m \in Messages(k) : encode(G, k, n, m).value = Zeros(n)))
        => d = n + 1

\* the factory call fn(p) has returned a code
Built(fn) == pc = "ready" /\ call.fn = fn

\* C5: for every r >= 2, hamming_code(r) returns a code with n = 2^r - 1,
\* k = 2^r - r - 1 and d = 3.
C5_HammingParameters ==
    (call.fn = "hamming_code" /\ call.arg >= 2 /\ pc # "new") =>
        /\ pc = "ready"
        /\ n = 2 ^ call.arg - 1
        /\ k = 2 ^ call.arg - call.arg - 1
        /\ d = 3

\* C5 witness: hamming_code(3) has returned the (7,4,3) code.
C5_Witness == Built("hamming_code") /\ call.arg = 3 /\ n = 7 /\ k = 4 /\ d = 3

\* C6: for every r >= 2 and every message m, hamming_code(r).encode(m) has
\* length 2^r - 1, is accepted by is_codeword and has an all-zero syndrome
\* under the parity-check matrix derived by the constructor.
C6_HammingEncodeIsCodeword ==
    Built("hamming_code") =>
        /\ (op = "encode" /\ ret.raised = "") => Len(ret.value) = 2 ^ call.arg - 1
        /\ (op = "is_codeword" /\ codeword.set /\ arg = codeword.value) =>
              ret.value = TRUE
        /\ (op = "syndrome" /\ codeword.set /\ arg = codeword.value) =>
              ret.value = Zeros(Len(ret.value))

\* C8: for every n >= 1, repetition_code(n) returns an (n, 1, n) code whose
\* encode([1]) is the all-ones and whose encode([0]) is the all-zero vector
\* of length n.
C8_RepetitionCode ==
    (call.fn = "repetition_code" /\ call.arg >= 1 /\ pc # "new") =>
        /\ pc = "ready"
        /\ n = call.arg /\ k = 1 /\ d = call.arg
        /\ (op = "encode" /\ arg = <<1>>) => ret = Returned([i \in 1..call.arg |-> 1])
        /\ (op = "encode" /\ arg = <<0>>) => ret = Returned([i \in 1..call.arg |-> 0])

\* C8 witness: repetition_code(3).encode([1]) has returned [1, 1, 1].
C8_Witness ==
    /\ Built("repetition_code") /\ call.arg = 3 /\ d = 3
    /\ op = "encode" /\ arg = <<1>> /\ ret.value = <<1, 1, 1>>

\* the mod-2 sum of the bits of a message
RECURSIVE ParityOf(_)
ParityOf(m) == IF m = <<>> THEN 0 ELSE (Head(m) + ParityOf(Tail(m))) % 2

\* C9: for every k >= 1, parity_check_code(k) returns a (k+1, k, 2) code and
\* encode(m) is m followed by the mod-2 sum of the bits of m.
C9_ParityCheckCode ==
    (call.fn = "parity_check_code" /\ call.arg >= 1 /\ pc # "new") =>
        /\ pc = "ready"
        /\ n = call.arg + 1 /\ k = call.arg /\ d = 2
        /\ (op = "encode" /\ Len(arg) = call.arg) =>
              ret = Returned(Append(arg, ParityOf(arg)))

\* C9 witness: parity_check_code(3).encode([1, 1, 1]) has returned
\* [1, 1, 1, 1].
C9_Witness ==
    /\ Built("parity_check_code") /\ call.arg = 3 /\ d = 2
    /\ op = "encode" /\ arg = <<1, 1, 1>> /\ ret.value = <<1, 1, 1, 1>>

\* C10: every stored edge joins one bosonic and one fermionic node, no edge
\* between nodes of one field type is ever constructed, and
\* check_adinkra_rules reports 'bipartite' as true.
C10_Bipartite ==
    pc = "graph" =>
        /\ \A e \in edges :
              {e.source.field_type, e.target.field_type} = {BOSONIC, FERMIONIC}
        /\ op = "check_adinkra_rules" => ret.value.bipartite = TRUE

\* C10 witness: a graph holding two edges has been checked and found
\* bipartite.
C10_Witness ==
    /\ pc = "graph" /\ Cardinality(edges) = 2
    /\ op = "check_adinkra_rules" /\ ret.value.bipartite = TRUE

\* C11: add_edge with an edge whose color is not among the first `dimension`
\* members of the color enumeration raises the invalid-color error and leaves
\* nodes, bosonic_nodes, fermionic_nodes and edges as they were: the end
\* points of the edge are not inserted.
C11_InvalidColorRejected ==
    [][(op' = "add_edge" /\ ColorValue(arg'.color) >= dimension) =>
          /\ ret' = Raised("ValueError")
          /\ UNCHANGED <<nodes, bosonic_nodes, fermionic_nodes, edges>>]_vars

\* C11 witness: add_edge has raised for an edge of an unavailable color on a
\* graph that holds an edge, and the source of the rejected edge is not among
\* the nodes.
C11_Witness ==
    /\ pc = "graph" /\ op = "add_edge" /\ ret = Raised("ValueError")
    /\ ColorValue(arg.color) >= dimension
    /\ Cardinality(edges) = 1
    /\ ~ \E x \in nodes : x.id = arg.source.id

\* C12: to_linear_code raises ValueError and returns no code object whenever
\* the graph has no edges or no available colors.
C12_EmptyGraphRaises ==
    (op = "to_linear_code" /\ (edges = {} \/ available_colors = <<>>)) =>
        (pc = "graph" /\ ret = Raised("ValueError"))

\* the call create_simple_adinkra(nb, nf, dim) is over, with arguments in
\* the given ranges
SimpleCall(min_nodes, min_dim) ==
    /\ call.fn = "create_simple_adinkra" /\ pc # "new"
    /\ call.arg[1] >= min_nodes /\ call.arg[2] >= min_nodes
    /\ call.arg[3] >= min_dim /\ call.arg[3] <= Len(EdgeColorList)

\* C13: for create_simple_adinkra(nb, nf, dim) with nb >= 1, nf >= 1 and
\* 1 <= dim <= 4, to_linear_code returns a code whose generator matrix has
\* exactly dim rows, one per available color in ascending color value (row i
\* carries as many dashing bits as color i has dashed edges), as many columns
\* as the longest codeword row, and k <= n; encoding the all-ones message of
\* length k yields a vector of length n.
C13_SimpleAdinkraCode ==
    SimpleCall(1, 1) =>
        /\ op = "to_linear_code" =>
              /\ pc = "ready" /\ ret.raised = ""
              /\ k = call.arg[3] /\ Len(G) = k
              /\ n = 2 * call.arg[1] * call.arg[2]
              /\ \A i \in 1..Len(G) :
                    /\ Len(G[i]) = n
                    /\ Sum(SubSeq(G[i], (n \div 2) + 1, n))
                          = Cardinality({e \in edges : e.color = EdgeColorList[i] /\ e.dashed})
              /\ k <= n
        /\ (pc = "ready" /\ op = "encode" /\ arg = Ones(k)) =>
              (ret.raised = "" /\ Len(ret.value) = n)

\* C14: for nb, nf >= 0 and 0 <= dim <= 4, create_simple_adinkra(nb, nf, dim)
\* returns a graph with exactly nb bosonic nodes, nf fermionic nodes, nb + nf
\* nodes and nb * nf * dim edges, one per bosonic node, fermionic node and
\* available color; every edge has a bosonic source and a fermionic target
\* and is dashed iff bosonic index + fermionic index + color index is odd.
C14_SimpleAdinkraShape ==
    SimpleCall(0, 0) =>
        /\ pc = "graph"
        /\ Cardinality(bosonic_nodes) = call.arg[1]
        /\ Cardinality(fermionic_nodes) = call.arg[2]
        /\ Cardinality(nodes) = call.arg[1] + call.arg[2]
        /\ Cardinality(edges) = call.arg[1] * call.arg[2] * call.arg[3]
        /\ Len(available_colors) = call.arg[3]
        /\ \A b \in bosonic_nodes, f \in fermionic_nodes :
              \A c \in 1..Len(available_colors) :
                 Cardinality({e \in edges : /\ e.source = b /\ e.target = f
                                            /\ e.color = available_colors[c]}) = 1
        /\ \A e \in edges :
              /\ e.source.field_type = BOSONIC /\ e.target.field_type = FERMIONIC
              /\ e.dashed <=>
                    (e.source.position[1] + e.target.position[1] + ColorValue(e.color)) % 2 = 1

\* C14 witness: create_simple_adinkra(2, 2, 2) has returned a graph of 4
\* nodes and 8 edges, 4 of them dashed.
C14_Witness ==
    /\ pc = "graph" /\ call.fn = "create_simple_adinkra" /\ call.arg = <<2, 2, 2>>
    /\ Cardinality(nodes) = 4 /\ Cardinality(edges) = 8
    /\ Cardinality({e \in edges : e.dashed}) = 4

\* create_hypercube_adinkra(dim) is over, with dim in the given range
CubeCall(min_dim, max_dim) ==
    /\ call.fn = "create_hypercube_adinkra" /\ pc # "new"
    /\ call.arg >= min_dim /\ call.arg <= max_dim

\* the vertex next to v along axis i
Flip(v, i) == [v EXCEPT ![i] = 1 - @]

\* C15: for 1 <= dim <= 4, create_hypercube_adinkra(dim) returns a graph with
\* exactly 2^dim nodes; the 2^(dim-1) vertices with an even number of 1 bits
\* are bosonic and the 2^(dim-1) vertices with an odd number are fermionic;
\* every vertex is the source of exactly dim edges, one along each axis,
\* colored by the axis index.
C15_HypercubeShape ==
    CubeCall(1, 4) =>
        /\ pc = "graph"
        /\ Cardinality(nodes) = 2 ^ call.arg
        /\ {x.position : x \in nodes} = [1..call.arg -> Bit]
        /\ Cardinality(bosonic_nodes) = 2 ^ (call.arg - 1)
        /\ Cardinality(fermionic_nodes) = 2 ^ (call.arg - 1)
        /\ \A x \in bosonic_nodes : x.field_type = BOSONIC /\ Sum(x.position) % 2 = 0
        /\ \A x \in fermionic_nodes : x.field_type = FERMIONIC /\ Sum(x.position) % 2 = 1
        /\ \A x \in nodes :
              /\ Cardinality({e \in edges : e.source = x}) = call.arg
              /\ \A i \in 1..call.arg :
                    \E e \in edges : /\ e.source = x
                                     /\ e.target.position = Flip(x.position, i)
                                     /\ ColorValue(e.color) = i - 1

\* C15 witness: create_hypercube_adinkra(3) has returned a graph of 8 nodes,
\* 4 of them bosonic, with 24 edges.
C15_Witness ==
    /\ pc = "graph" /\ call.fn = "create_hypercube_adinkra" /\ call.arg = 3
    /\ Cardinality(nodes) = 8 /\ Cardinality(bosonic_nodes) = 4
    /\ Cardinality(edges) = 24

\* e1 and e2 join the same two nodes in opposite directions with one color
Opposite(e1, e2) ==
    e1.source = e2.target /\ e1.target = e2.source /\ e1.color = e2.color

\* C16 as stated: in the graph returned by create_hypercube_adinkra(dim) only
\* one direction of each undirected hypercube edge is materialized: for no
\* adjacent vertices u, v and color c does the edge set hold both an edge from
\* u to v and an edge from v to u.
C16_Original ==
    (call.fn = "create_hypercube_adinkra" /\ pc = "graph") =>
        ~ \E e1 \in edges, e2 \in edges : Opposite(e1, e2)

\* C16 as amended: both directions of each undirected hypercube edge are
\* materialized. For 1 <= dim <= 4 every stored edge has exactly one opposite
\* edge of the same color, the one of the two that starts at the vertex whose
\* bit along the axis is 1 is dashed and the other is solid, and the graph
\* holds dim * 2^dim edges.
C16_BothDirections ==
    CubeCall(1, 4) =>
        /\ pc = "graph"
        /\ Cardinality(edges) = call.arg * 2 ^ call.arg
        /\ \A e \in edges :
              /\ e.dashed <=> e.source.position[ColorValue(e.color) + 1] = 1
              /\ Cardinality({o \in edges : Opposite(e, o)}) = 1
              /\ \A o \in edges : Opposite(e, o) => o.dashed # e.dashed

\* C16 witness: create_hypercube_adinkra(2) has returned a graph of 8 edges
\* in which a dashed and a solid edge join the same two nodes in opposite
\* directions.
C16_Witness ==
    /\ pc = "graph" /\ call.fn = "create_hypercube_adinkra" /\ call.arg = 2
    /\ Cardinality(edges) = 8
    /\ \E e1 \in edges, e2 \in edges : Opposite(e1, e2) /\ e1.dashed /\ ~ e2.dashed

\* the position of a stored edge in the order of the add_edge calls
InsertedAt(e) == CHOOSE t \in 1..Len(added) : added[t].id = e.id

\* the edge of a non-empty set of stored edges that add_edge stored last
InsertedLast(S) == CHOOSE e \in S : \A o \in S : InsertedAt(o) <= InsertedAt(e)

\* C17 as stated: when several stored edges of one color map to the same cell
\* of get_adjacency_matrix(color), the cell holds the value of the edge that
\* add_edge inserted later (-1 if dashed, +1 otherwise), for every insertion
\* order.
C17_Original ==
    (pc = "graph" /\ op = "get_adjacency_matrix") =>
        \A cell \in DOMAIN CellEdges(ThisGraph, arg) :
            Cardinality(CellEdges(ThisGraph, arg)[cell]) >= 2 =>
                ret.value[cell[1]][cell[2]]
                    = EdgeValue(InsertedLast(CellEdges(ThisGraph, arg)[cell]))

\* C17 as amended: when several stored edges of one color map to the same
\* cell, the cell holds the value of one of these edges (-1 or +1), the one
\* the iteration over the edge set meets last, which need not be the one
\* inserted last; it never holds the sum of their values, and a cell no
\* edge maps to holds 0.
C17_OverwriteNotSum ==
    (pc = "graph" /\ op = "get_adjacency_matrix") =>
        \A i \in 1..Len(ret.value) : \A j \in 1..Len(ret.value[i]) :
            IF <<i, j>> \in DOMAIN CellEdges(ThisGraph, arg)
            THEN ret.value[i][j]
                    \in {EdgeValue(e) : e \in CellEdges(ThisGraph, arg)[<<i, j>>]}
            ELSE ret.value[i][j] = 0

\* C17 witness: a dashed and a solid edge of one color map to the same cell
\* and get_adjacency_matrix has returned the value of the edge inserted
\* first.
C17_Witness ==
    /\ pc = "graph" /\ op = "get_adjacency_matrix" /\ Len(added) = 2
    /\ added[1].color = arg /\ added[2].color = arg
    /\ CellOf(ThisGraph, added[1]) = CellOf(ThisGraph, added[2])
    /\ added[1].dashed /\ ~ added[2].dashed
    /\ ret.value[CellOf(ThisGraph, added[1])[1]][CellOf(ThisGraph, added[1])[2]] = -1

\* the graph is well formed: nodes is the union of the two disjoint subsets,
\* each subset holds nodes of its own field type only, the end points of
\* every stored edge are nodes and its color is available
WellFormed ==
    /\ nodes = bosonic_nodes \cup fermionic_nodes
    /\ bosonic_nodes \cap fermionic_nodes = {}
    /\ \A x \in bosonic_nodes : x.field_type = BOSONIC
    /\ \A x \in fermionic_nodes : x.field_type = FERMIONIC
    /\ \A e \in edges :
          /\ \E x \in nodes : x.id = e.source.id
          /\ \E x \in nodes : x.id = e.target.id
          /\ InList(e.color, available_colors)

\* C18: after any sequence of add_node and add_edge calls, rejected add_edge
\* calls included, nodes equals the union of bosonic_nodes and
\* fermionic_nodes, the two subsets are disjoint and hold only nodes of their
\* own field type, both end points of every stored edge are in nodes and the
\* color of every stored edge is available; a call that adds a node or an
\* edge that is already present changes nothing.
C18_GraphInvariants ==
    /\ [](pc = "graph" => WellFormed)
    /\ [][/\ (op' = "add_node" /\ \E x \in nodes : x.id = arg'.id)
                => UNCHANGED graph
          /\ (op' = "add_edge" /\ \E e \in edges : e.id = arg'.id)
                => UNCHANGED graph]_vars

\* C18 witness: add_edge has returned for the edge that was stored first, on
\* a well-formed graph of two edges and three nodes: the call changed nothing.
C18_Witness ==
    /\ pc = "graph" /\ op = "add_edge" /\ ret = NoResult
    /\ Len(added) = 2 /\ arg = added[1]
    /\ Cardinality(edges) = 2 /\ Cardinality(nodes) = 3
    /\ WellFormed

C20_MoreRowsThanColumns ==
    (call.fn = "LinearBlockCode" /\ pc # "new") =>
        /\ call.arg.shape[1] > call.arg.shape[2] =>
              /\ pc = "error" /\ ret = Raised("IndexError")
              /\ IsMinPairDistance(get_all_codewords(G, k, n), d)
              /\ H = <<>>
        /\ (call.arg.shape[1] <= call.arg.shape[2] /\ call.arg.shape[2] >= 1) =>
              pc = "ready"

\* C20 witness: LinearBlockCode of a 2 x 1 matrix has raised IndexError after
\* d was computed.
C20_Witness ==
    /\ call.fn = "LinearBlockCode" /\ pc = "error" /\ ret = Raised("IndexError")
    /\ k = 2 /\ n = 1 /\ G = <<<<1>>, <<0>>>> /\ d = 0 /\ H = <<>>

====
